---- MODULE Spec2Model ----
(***************************************************************************)
(* Model of the Heka GeoIP2 decoder plugins.                               *)
(*                                                                         *)
(*   GeoIp2Decoder  src/geoip_decoder.go     four optional databases and   *)
(*                                           an ordered list of candidate  *)
(*                                           address fields                *)
(*   GeoIpDecoder   src/unnamed/part_000     the older single-database,    *)
(*                                           single-field decoder          *)
(*                                                                         *)
(* The host pipeline, the file system, the resolver and the database       *)
(* contents are the environment: they are fixed tables below, so that a    *)
(* Decode call is a function of the decoder, the record and the tables.    *)
(***************************************************************************)
EXTENDS Naturals, Integers, Sequences, FiniteSets, TLC

VARIABLES
    config,     \* the configuration struct the host hands to Init
    pool,       \* the host goroutines that call Decode on this decoder
    inbox,      \* per goroutine, the fields of the record it will submit
    gi2,        \* the GeoIp2Decoder struct
    ld,         \* the GeoIpDecoder struct
    initResult, \* what Init returned: "pending", "nil" or "error"
    log,        \* the messages written through LogError, in order
    frames,     \* per goroutine, the activation of Decode and its pack
    intSize     \* the width in bits of int and uint in this build

vars == <<config, pool, inbox, gi2, ld, initResult, log, frames, intSize>>

(***************************************************************************)
(* Bounds                                                                  *)
(***************************************************************************)
\* Longest configured list of candidate address fields.
MaxCandidates == 2

\* Goroutines of the host's worker pool in the concurrent specification.
NumWorkers == 2

Workers == 1..NumWorkers

(***************************************************************************)
(* Go values                                                               *)
(***************************************************************************)
\* A nil *geoip2.Reader.
NilReader == "<nil>"

\* A nil net.IP (a nil byte slice).
NilIP == <<>>

\* m[k] of a Go map[string]string: the zero value "" when k is missing.
MapGet(m, k) == IF k \in DOMAIN m THEN m[k] ELSE ""

\* An unsigned integer of up to 32 bits, as two digits of base 65536 (the
\* checker's own integers end below 2^31): its value is hi * 65536 + lo.
Uint(hi, lo) == [hi |-> hi, lo |-> lo]

\* A signed integer of up to 64 bits whose magnitude is below 2^32: the sign
\* and the magnitude, in the same two digits.
Int64(neg, hi, lo) == [neg |-> neg, hi |-> hi, lo |-> lo]

\* The signed integer of a small number n, -65536 < n < 65536.
Small(n) == IF n < 0 THEN Int64(TRUE, 0, 0 - n) ELSE Int64(FALSE, 0, n)

\* The widths of int and uint the Go compiler has: 32 bits (386, arm) or 64.
IntSizes == {32, 64}

Digit == <<"0", "1", "2", "3", "4", "5", "6", "7", "8", "9">>

\* u divided by ten, and the remainder, by long division on the two digits.
Div10(u) == Uint(u.hi \div 10, ((u.hi % 10) * 65536 + u.lo) \div 10)

Mod10(u) == ((u.hi % 10) * 65536 + u.lo) % 10

RECURSIVE FormatUint(_)
\* strconv.FormatUint(u, 10)
FormatUint(u) ==
    IF u.hi = 0 /\ u.lo < 10 THEN Digit[u.lo + 1]
    ELSE FormatUint(Div10(u)) \o Digit[Mod10(u) + 1]

\* strconv.FormatFloat(f, 'g', 16, 32) for the coordinates of the tables
\* below, which are whole degrees: a whole number of that size is exact in
\* 32 bits and 'g' prints it without exponent or fraction.
FormatFloat(f) ==
    IF f < 0 THEN "-" \o FormatUint(Uint(0, 0 - f)) ELSE FormatUint(Uint(0, f))

(***************************************************************************)
(* The host's message: message.Field, Message.GetFieldValue, AddField      *)
(***************************************************************************)
StringField(name, s) ==
    [name |-> name, value_type |-> "STRING", value_string |-> s,
     value_bytes |-> <<>>, value_integer |-> Small(0), value_bool |-> FALSE]

BytesField(name, chunks) ==
    [name |-> name, value_type |-> "BYTES", value_string |-> "",
     value_bytes |-> chunks, value_integer |-> Small(0), value_bool |-> FALSE]

\* A field holding the signed integer i (ValueInteger is an int64).
IntegerField(name, i) ==
    [name |-> name, value_type |-> "INTEGER", value_string |-> "",
     value_bytes |-> <<>>, value_integer |-> i, value_bool |-> FALSE]

BoolField(name, b) ==
    [name |-> name, value_type |-> "BOOL", value_string |-> "",
     value_bytes |-> <<>>, value_integer |-> Small(0), value_bool |-> b]

\* What GetFieldValue returns for a name the message does not hold.
NoValue == [name |-> "", value_type |-> "NONE", value_string |-> "",
            value_bytes |-> <<>>, value_integer |-> Small(0), value_bool |-> FALSE]

\* pack.Message.GetFieldValue(name): the value of the first field so named.
GetFieldValue(fields, name) ==
    LET hits == {i \in 1..Len(fields) : fields[i].name = name}
    IN  IF hits = {} THEN NoValue
        ELSE fields[CHOOSE i \in hits : \A j \in hits : i <= j]

\* A conversion in place of the type assertion: bytes pass as a string too.
AssertStringLoose(v) ==
    [host |-> IF v.value_type = "BYTES" /\ Len(v.value_bytes) = 1
              THEN v.value_bytes[1] ELSE v.value_string,
     ok   |-> v.value_type \in {"STRING", "BYTES"}]

\* host, ok := hostValue.(string): the string and whether the value is one.
AssertString(v) ==
    [host |-> IF v.value_type = "STRING" THEN v.value_string ELSE "",
     ok   |-> v.value_type = "STRING"]

\* gi2.AddField(pack, name, value), once for each field of new, in order:
\* message.NewField accepts every type the extractors pass, so each field is
\* appended to the message.
AddField(fields, new) == fields \o new

(***************************************************************************)
(* Environment tables: addresses, resolver, file system, databases         *)
(***************************************************************************)
IPAll   == <<192, 0, 2, 1>>
IPNone  == <<10, 0, 0, 1>>
IPv6    == <<8193, 3512, 0, 1>>
IPPart  == <<198, 51, 100, 7>>
IPCell  == <<203, 0, 113, 9>>

\* The text forms net.ParseIP accepts, with the address each denotes.
Literals ==
    ("192.0.2.1" :> IPAll) @@ ("10.0.0.1" :> IPNone) @@
    ("2001:db8::1" :> IPv6) @@ ("198.51.100.7" :> IPPart) @@
    ("203.0.113.9" :> IPCell)

\* net.ParseIP(host): nil unless host is an address literal.
ParseIP(host) == IF host \in DOMAIN Literals THEN Literals[host] ELSE NilIP

\* net.LookupIP(host): a literal resolves to itself; of the three names one
\* has two addresses, one does not exist and one resolves to an empty list
\* without an error.
LookupIP(host) ==
    IF host \in DOMAIN Literals THEN [ips |-> <<Literals[host]>>, err |-> FALSE]
    ELSE IF host = "www.example.org" THEN [ips |-> <<IPAll, IPNone>>, err |-> FALSE]
    ELSE IF host = "empty.example.org" THEN [ips |-> <<>>, err |-> FALSE]
    ELSE [ips |-> <<>>, err |-> TRUE]

HostNames == {"www.example.org", "empty.example.org", "nxdomain.example.org"}

GoodFile == "/db/good.mmdb"
BadFile  == "/db/missing.mmdb"

\* geoip2.Open(path): the reader, or nil and an error.
Open(path) ==
    IF path = GoodFile THEN [db |-> path, err |-> FALSE]
    ELSE [db |-> NilReader, err |-> TRUE]

ZeroAnonymousIP ==
    [IsAnonymous |-> FALSE, IsAnonymousVPN |-> FALSE, IsHostingProvider |-> FALSE,
     IsPublicProxy |-> FALSE, IsTorExitNode |-> FALSE]

ZeroCity ==
    [Country |-> [IsoCode |-> "", Names |-> <<>>],
     City |-> [Names |-> <<>>],
     Location |-> [Latitude |-> 0, Longitude |-> 0]]

ZeroConnectionType == [ConnectionType |-> ""]

ZeroISP ==
    [AutonomousSystemNumber |-> Uint(0, 0), AutonomousSystemOrganization |-> "",
     ISP |-> "", Organization |-> ""]

\* Reader.AnonymousIP(ip): an address the database does not hold gives the
\* zero record without error; an IPv6 address gives an error (the tables are
\* IPv4-only databases) beside the zero record.
AnonymousIP(ip) ==
    IF ip = IPv6 THEN [rec |-> ZeroAnonymousIP, err |-> TRUE]
    ELSE IF ip = IPAll THEN
        [rec |-> [ZeroAnonymousIP EXCEPT !.IsAnonymous = TRUE], err |-> FALSE]
    ELSE IF ip = IPPart THEN
        [rec |-> [ZeroAnonymousIP EXCEPT !.IsAnonymousVPN = TRUE,
                                         !.IsTorExitNode = TRUE], err |-> FALSE]
    ELSE IF ip = IPCell THEN [rec |-> ZeroAnonymousIP, err |-> TRUE]
    ELSE [rec |-> ZeroAnonymousIP, err |-> FALSE]

\* Reader.City(ip)
City(ip) ==
    IF ip = IPv6 THEN [rec |-> ZeroCity, err |-> TRUE]
    ELSE IF ip = IPAll THEN
        [rec |-> [Country |-> [IsoCode |-> "DE",
                               Names |-> ("en" :> "Germany") @@ ("de" :> "Deutschland")],
                  City |-> [Names |-> ("en" :> "Berlin")],
                  Location |-> [Latitude |-> 52, Longitude |-> 13]],
         err |-> FALSE]
    ELSE IF ip = IPPart THEN
        [rec |-> [Country |-> [IsoCode |-> "GH", Names |-> ("en" :> "Ghana")],
                  City |-> [Names |-> <<>>],
                  Location |-> [Latitude |-> 5, Longitude |-> 0]],
         err |-> FALSE]
    ELSE IF ip = IPCell THEN
        [rec |-> [Country |-> [IsoCode |-> "", Names |-> <<>>],
                  City |-> [Names |-> <<>>],
                  Location |-> [Latitude |-> 0 - 33, Longitude |-> 151]],
         err |-> FALSE]
    ELSE [rec |-> ZeroCity, err |-> FALSE]

\* Reader.ConnectionType(ip)
ConnectionType(ip) ==
    IF ip = IPv6 THEN [rec |-> ZeroConnectionType, err |-> TRUE]
    ELSE IF ip = IPAll THEN [rec |-> [ConnectionType |-> "Cable/DSL"], err |-> FALSE]
    ELSE IF ip = IPCell THEN [rec |-> [ConnectionType |-> "Cellular"], err |-> FALSE]
    ELSE IF ip = IPPart THEN [rec |-> ZeroConnectionType, err |-> TRUE]
    ELSE [rec |-> ZeroConnectionType, err |-> FALSE]

\* Reader.ISP(ip)
ISP(ip) ==
    IF ip = IPv6 THEN [rec |-> ZeroISP, err |-> TRUE]
    ELSE IF ip = IPAll THEN
        [rec |-> [AutonomousSystemNumber |-> Uint(0, 64496),
                  AutonomousSystemOrganization |-> "Example AS",
                  ISP |-> "Example ISP", Organization |-> "Example Org"],
         err |-> FALSE]
    ELSE IF ip = IPPart THEN
        [rec |-> [ZeroISP EXCEPT !.AutonomousSystemNumber = Uint(65535, 65535)], err |-> FALSE]
    ELSE IF ip = IPCell THEN
        [rec |-> [ZeroISP EXCEPT !.ISP = "Example Mobile"], err |-> FALSE]
    ELSE [rec |-> ZeroISP, err |-> FALSE]

(***************************************************************************)
(* GeoIp2Decoder: the extractors (src/geoip_decoder.go)                    *)
(*                                                                         *)
(* A bytes.Buffer is the sequence of the strings written to it; its bytes  *)
(* are their concatenation.  Each extractor takes the decoder struct, the  *)
(* lookup record and the fields of the message, and gives the fields       *)
(* afterwards: every AddField call it makes appends one field.             *)
(***************************************************************************)
\* int(d) where int has 32 bits, for d below 2^32: the value itself below
\* 2^31, and d - 2^32 from there on (the same 32 bits read as signed).
Wrap32(d) ==
    IF d.hi < 32768 THEN Int64(FALSE, d.hi, d.lo)
    ELSE IF d.lo = 0 THEN Int64(TRUE, 65536 - d.hi, 0)
    ELSE Int64(TRUE, 65535 - d.hi, 65536 - d.lo)

\* GetData(v) for the uint of the ISP record, case uint: int(d). Where int
\* has 64 bits every uint below 2^32 keeps its value; where it has 32 bits
\* the conversion wraps.
GetData(d) == IF intSize = 64 THEN Int64(FALSE, d.hi, d.lo) ELSE Wrap32(d)

\* fmt.Sprintf("%s_<attribute>", gi2.TargetField)
Prefixed(prefix, attribute) == prefix \o "_" \o attribute

\* When(c, s): what a conditional block writes or adds: s, or nothing.
When(c, s) == IF c THEN s ELSE <<>>

\* The buffer of the JSON branch of CreateMessageFieldsCity (lines 149-174).
CityBuffer(countrycode, country, city, lat, lon) ==
    <<"{", "\"location\":[", lon, ",", lat, "]">>
        \o When(countrycode # "", <<",\"country_code\":\"", countrycode, "\"">>)
        \o When(country # "", <<",\"country\":\"", country, "\"">>)
        \o When(city # "", <<",\"city\":\"", city, "\"">>)
        \o <<"}">>

\* The fields the flat branch of CreateMessageFieldsCity adds (lines 178-188).
CityFlat(prefix, countrycode, country, city, lat, lon) ==
    <<StringField(Prefixed(prefix, "location"), lat \o ", " \o lon)>>
        \o When(countrycode # "", <<StringField(Prefixed(prefix, "country_code"), countrycode)>>)
        \o When(country # "", <<StringField(Prefixed(prefix, "country"), country)>>)
        \o When(city # "", <<StringField(Prefixed(prefix, "city"), city)>>)

CreateMessageFieldsCity(d, record, fields) ==
    AddField(fields,
        IF d.JSONObject
        THEN <<BytesField(d.TargetField,
                          CityBuffer(record.Country.IsoCode,
                                     MapGet(record.Country.Names, d.Language),
                                     MapGet(record.City.Names, d.Language),
                                     FormatFloat(record.Location.Latitude),
                                     FormatFloat(record.Location.Longitude)))>>
        ELSE CityFlat(d.TargetField, record.Country.IsoCode,
                      MapGet(record.Country.Names, d.Language),
                      MapGet(record.City.Names, d.Language),
                      FormatFloat(record.Location.Latitude),
                      FormatFloat(record.Location.Longitude)))

\* The buffer of the JSON branch of CreateMessageFieldsISP (lines 201-224).
ISPBuffer(asnum, asname, isp, organization) ==
    <<"{">>
        \o When(asnum # Uint(0, 0), <<"\"asnum\":", FormatUint(asnum)>>)
        \o When(asname # "", <<",\"asname\":\"", asname, "\"">>)
        \o When(isp # "", <<",\"isp\":\"", isp, "\"">>)
        \o When(organization # "", <<",\"organization\":\"", organization, "\"">>)
        \o <<"}">>

\* The fields the flat branch of CreateMessageFieldsISP adds (lines 229-240).
ISPFlat(asnum, asname, isp, organization) ==
    When(asnum # Uint(0, 0), <<IntegerField("asnum", GetData(asnum))>>)
        \o When(asname # "", <<StringField("asname", asname)>>)
        \o When(isp # "", <<StringField("isp", isp)>>)
        \o When(organization # "", <<StringField("organization", organization)>>)

CreateMessageFieldsISP(d, record, fields) ==
    AddField(fields,
        IF d.JSONObject
        THEN <<BytesField(d.TargetField,
                          ISPBuffer(record.AutonomousSystemNumber,
                                    record.AutonomousSystemOrganization,
                                    record.ISP, record.Organization))>>
        ELSE ISPFlat(record.AutonomousSystemNumber, record.AutonomousSystemOrganization,
                     record.ISP, record.Organization))

\* The buffer of the JSON branch of CreateMessageFieldsAnonymousIP
\* (lines 254-273).
AnonymousIPBuffer(anon, anonvpn, hostingpro, publicproxy, torexitnode) ==
    <<"{">>
        \o When(anon, <<",\"anonymous_ip\": true,">>)
        \o When(anonvpn, <<",\"anonymous_vpn\": true">>)
        \o When(hostingpro, <<",\"hosting_provider\": true">>)
        \o When(publicproxy, <<",\"public_proxy\": true">>)
        \o When(torexitnode, <<",\"tor_exit_node\": true">>)
        \o <<"}">>

\* The fields the flat branch of CreateMessageFieldsAnonymousIP adds
\* (lines 278-292).
AnonymousIPFlat(anon, anonvpn, hostingpro, publicproxy, torexitnode) ==
    When(anon, <<BoolField("anonymous_ip", anon)>>)
        \o When(anonvpn, <<BoolField("anonymous_vpn", anonvpn)>>)
        \o When(hostingpro, <<BoolField("hosting_provider", hostingpro)>>)
        \o When(publicproxy, <<BoolField("public_proxy", publicproxy)>>)
        \o When(torexitnode, <<BoolField("tor_exit_node", torexitnode)>>)

CreateMessageFieldsAnonymousIP(d, record, fields) ==
    AddField(fields,
        IF d.JSONObject
        THEN <<BytesField(d.TargetField,
                          AnonymousIPBuffer(record.IsAnonymous, record.IsAnonymousVPN,
                                            record.IsHostingProvider, record.IsPublicProxy,
                                            record.IsTorExitNode))>>
        ELSE AnonymousIPFlat(record.IsAnonymous, record.IsAnonymousVPN,
                             record.IsHostingProvider, record.IsPublicProxy,
                             record.IsTorExitNode))

CreateMessageFieldsConnectionType(d, record, fields) ==
    AddField(fields,
        IF d.JSONObject
        THEN <<BytesField(d.TargetField,
                          <<"{">>
                              \o When(record.ConnectionType # "",
                                      <<"\"connection_type\":\"", record.ConnectionType, "\"">>)
                              \o <<"}">>)>>
        ELSE When(record.ConnectionType # "",
                  <<StringField("connection_type", record.ConnectionType)>>))

(***************************************************************************)
(* GeoIp2Decoder.Init                                                      *)
(***************************************************************************)
\* The zero GeoIp2Decoder the plugin factory makes with new(GeoIp2Decoder).
NewGeoIp2Decoder ==
    [SourceAddrFields |-> <<>>, TargetField |-> "", Language |-> "",
     JSONObject |-> FALSE, DNSLookup |-> FALSE,
     anon_db |-> NilReader, city_db |-> NilReader,
     conn_db |-> NilReader, isp_db |-> NilReader]

MsgNoSourceFields == "At least one source address field must be specified."
MsgNoTargetField  == "target_field must be specified"
MsgOpenAnon       == "Error: Could not open GeoIP2-Anonymous-IP database"
MsgOpenCity       == "Error: Could not open GeoIP2-City database"
MsgOpenConn       == "Error: Could not open GeoIP2-Connection-Type database"
MsgOpenISP        == "Error: Could not open GeoIP2-ISP database"

\* The assignment of one pair of Init, reader and err from geoip2.Open, when
\* the reader is nil and its file is configured; otherwise both keep their
\* values.
OpenResult(st, handle, file) ==
    IF st.d[handle] = NilReader /\ file # "" THEN Open(file)
    ELSE [db |-> st.d[handle], err |-> st.err]

\* if err != nil { LogError(...) } after the assignment r.
Opened(st, handle, r, msg) ==
    [d   |-> [st.d EXCEPT ![handle] = r.db],
     err |-> r.err,
     log |-> st.log \o When(r.err, <<msg>>)]

\* One pair of Init. st is [d, err, log]; err is the named result of Init,
\* which keeps its value from one pair to the next.
OpenDatabase(st, handle, file, msg) == Opened(st, handle, OpenResult(st, handle, file), msg)

\* Lines 88-107: the two configuration tests, which only log, and the copies.
Configure(d, conf, log0) ==
    [d   |-> [d EXCEPT !.SourceAddrFields = conf.SourceAddrFields,
                       !.DNSLookup = conf.DNSLookup,
                       !.JSONObject = conf.JSONObject,
                       !.Language = conf.Language,
                       !.TargetField = conf.TargetField],
     err |-> FALSE,
     log |-> log0 \o When(Len(conf.SourceAddrFields) = 0, <<MsgNoSourceFields>>)
                  \o When(conf.TargetField = "", <<MsgNoTargetField>>)]

\* The whole of Init: the decoder, the returned err and the log afterwards.
GeoIp2DecoderInit(d, conf, log0) ==
    OpenDatabase(
        OpenDatabase(
            OpenDatabase(
                OpenDatabase(Configure(d, conf, log0),
                             "anon_db", conf.AnonDatabaseFile, MsgOpenAnon),
                "city_db", conf.CityDatabaseFile, MsgOpenCity),
            "conn_db", conf.ConnDatabaseFile, MsgOpenConn),
        "isp_db", conf.ISPDatabaseFile, MsgOpenISP)

(***************************************************************************)
(* GeoIp2Decoder.Decode: one pass of the loop over SourceAddrFields        *)
(***************************************************************************)
\* What a pass leaves when it ends before any database is queried.
NoLookup(fields, found, hostAddr, ok, resolve, outcome) ==
    [fields |-> fields, found |-> found, ip |-> NilIP, field |-> hostAddr,
     ok |-> ok, resolve |-> resolve, queries |-> <<>>, outcome |-> outcome]

\* What a pass leaves after the databases were queried with ip; q holds the
\* fields, found and the queries made.
Looked(hostAddr, ip, resolve, q, outcome) ==
    [fields |-> q.fields, found |-> q.found, ip |-> ip, field |-> hostAddr,
     ok |-> TRUE, resolve |-> resolve, queries |-> q.queries, outcome |-> outcome]

\* One database block: the query is noted; when its condition hit holds,
\* found is set and the extractor has run, leaving the fields written.
Queried(st, kind, ip, err, hit, written) ==
    [fields  |-> IF hit THEN written ELSE st.fields,
     found   |-> st.found \/ hit,
     queries |-> Append(st.queries, [kind |-> kind, ip |-> ip, err |-> err, hit |-> hit])]

\* Lines 352-353.
AnonymousIPFound(q) ==
    ~q.err /\ (q.rec.IsAnonymous \/ q.rec.IsAnonymousVPN \/ q.rec.IsHostingProvider
               \/ q.rec.IsPublicProxy \/ q.rec.IsTorExitNode)

\* Lines 360-361.
CityFound(q) ==
    ~q.err /\ (q.rec.Location.Longitude # 0 /\ q.rec.Location.Latitude # 0)

\* Lines 368-369.
ConnectionTypeFound(q) == ~q.err /\ q.rec.ConnectionType # ""

\* Lines 376-377.
ISPFound(q) ==
    q.err \/ (q.rec.AutonomousSystemNumber # Uint(0, 0) \/ q.rec.AutonomousSystemOrganization # ""
              \/ q.rec.ISP # "" \/ q.rec.Organization # "")

\* Lines 350-357.
QueryAnon(d, ip, st) ==
    IF d.anon_db = NilReader THEN st
    ELSE Queried(st, "anon", ip, AnonymousIP(ip).err, AnonymousIPFound(AnonymousIP(ip)),
                 CreateMessageFieldsAnonymousIP(d, AnonymousIP(ip).rec, st.fields))

\* Lines 358-365.
QueryCity(d, ip, st) ==
    IF d.city_db = NilReader THEN st
    ELSE Queried(st, "city", ip, City(ip).err, CityFound(City(ip)),
                 CreateMessageFieldsCity(d, City(ip).rec, st.fields))

\* Lines 366-373.
QueryConn(d, ip, st) ==
    IF d.conn_db = NilReader THEN st
    ELSE Queried(st, "conn", ip, ConnectionType(ip).err,
                 ConnectionTypeFound(ConnectionType(ip)),
                 CreateMessageFieldsConnectionType(d, ConnectionType(ip).rec, st.fields))

\* Lines 374-381.
QueryISP(d, ip, st) ==
    IF d.isp_db = NilReader THEN st
    ELSE Queried(st, "isp", ip, ISP(ip).err, ISPFound(ISP(ip)),
                 CreateMessageFieldsISP(d, ISP(ip).rec, st.fields))

\* Lines 350-381: the four databases in turn, each on the same ip.
QueryDatabases(d, ip, fields, found) ==
    QueryISP(d, ip,
        QueryConn(d, ip,
            QueryCity(d, ip,
                QueryAnon(d, ip, [fields |-> fields, found |-> found, queries |-> <<>>]))))

\* Lines 336-342, after the error test: ips[0], which panics on an empty list.
UseFirst(d, fields, found, hostAddr, ips) ==
    IF Len(ips) = 0 THEN NoLookup(fields, found, hostAddr, TRUE, "empty", "panic")
    ELSE Looked(hostAddr, ips[1], "resolved",
                QueryDatabases(d, ips[1], fields, found), "next")

\* Lines 344-348 and the queries after them.
UseLiteral(d, fields, found, hostAddr, ip) ==
    IF ip = NilIP THEN NoLookup(fields, found, hostAddr, TRUE, "invalid", "next")
    ELSE Looked(hostAddr, ip, "parsed", QueryDatabases(d, ip, fields, found), "next")

\* The pass once the value of the candidate field is at hand; a is the
\* result of the type assertion.
Resolve(d, fields, found, hostAddr, a) ==
    IF ~a.ok THEN NoLookup(fields, found, hostAddr, FALSE, "none", "next")
    ELSE IF d.DNSLookup THEN
        IF LookupIP(a.host).err
        THEN NoLookup(fields, found, hostAddr, TRUE, "error", "next")
        ELSE UseFirst(d, fields, found, hostAddr, LookupIP(a.host).ips)
    ELSE UseLiteral(d, fields, found, hostAddr, ParseIP(a.host))

\* Lines 328-381: the pass for candidate hostAddr. outcome is "next" (the
\* continue statements and the fall-through to the break test) or "panic"
\* (ips[0] of an empty slice).
DecodePass(d, fields, found, hostAddr) ==
    Resolve(d, fields, found, hostAddr, AssertString(GetFieldValue(fields, hostAddr)))

(***************************************************************************)
(* GeoIpDecoder, the single-database decoder (src/unnamed/part_000)        *)
(***************************************************************************)
\* The zero GeoIpDecoder made by new(GeoIpDecoder).
NewGeoIpDecoder ==
    [SourceHostField |-> "", TargetField |-> "", JSONObject |-> FALSE,
     DNSLookup |-> FALSE, db |-> NilReader]

\* Lines 83-95 of GeoIpDecoder.Init: the copies, then the database.
GeoIpDecoderOpen(d, conf, r) ==
    [d |-> [d EXCEPT !.TargetField = conf.TargetField,
                     !.SourceHostField = conf.SourceHostField,
                     !.JSONObject = conf.JSONObject,
                     !.DNSLookup = conf.DNSLookup,
                     !.db = r.db],
     err |-> r.err]

\* GeoIpDecoder.Init: the decoder and whether an error is returned.
GeoIpDecoderInit(d, conf) ==
    IF conf.SourceHostField = "" THEN [d |-> d, err |-> TRUE]
    ELSE IF conf.TargetField = "" THEN [d |-> d, err |-> TRUE]
    ELSE GeoIpDecoderOpen(d, conf, IF d.db = NilReader THEN Open(conf.DatabaseFile)
                                   ELSE [db |-> d.db, err |-> FALSE])

\* The fields the flat branch of GeoIpDecoder.CreateMessageFields adds
\* (lines 144-174).
LocationFlat(prefix, countrycode, country, city, lat, lon) ==
    <<BytesField(Prefixed(prefix, "location"), <<"[", lon, ",", lat, "]">>)>>
        \o When(countrycode # "", <<StringField(Prefixed(prefix, "countrycode"), countrycode)>>)
        \o When(country # "", <<StringField(Prefixed(prefix, "country"), country)>>)
        \o When(city # "", <<StringField(Prefixed(prefix, "city"), city)>>)

\* GeoIpDecoder.CreateMessageFields
CreateMessageFields(d, record, fields) ==
    fields \o
        IF d.JSONObject
        THEN <<BytesField(d.TargetField,
                          CityBuffer(record.Country.IsoCode,
                                     MapGet(record.Country.Names, "en"),
                                     MapGet(record.City.Names, "en"),
                                     FormatFloat(record.Location.Latitude),
                                     FormatFloat(record.Location.Longitude)))>>
        ELSE LocationFlat(d.TargetField, record.Country.IsoCode,
                          MapGet(record.Country.Names, "en"),
                          MapGet(record.City.Names, "en"),
                          FormatFloat(record.Location.Latitude),
                          FormatFloat(record.Location.Longitude))

\* Lines 214-215, negated: the record is used.
LocationFound(q) ==
    ~(q.err \/ (q.rec.Location.Longitude = 0 /\ q.rec.Location.Latitude = 0))

\* Lines 210-221: the one database, when it is open.
QueryDatabase(d, ip, fields) ==
    IF d.db = NilReader THEN [fields |-> fields, found |-> FALSE, queries |-> <<>>]
    ELSE Queried([fields |-> fields, found |-> FALSE, queries |-> <<>>],
                 "city", ip, City(ip).err, LocationFound(City(ip)),
                 CreateMessageFields(d, City(ip).rec, fields))

\* Lines 193-200, after the error test, and the query.
LdUseFirst(d, fields, name, ips) ==
    IF Len(ips) = 0 THEN NoLookup(fields, FALSE, name, TRUE, "empty", "panic")
    ELSE Looked(name, ips[1], "resolved", QueryDatabase(d, ips[1], fields), "return")

\* Lines 202-208 and the query.
LdUseLiteral(d, fields, name, ip) ==
    IF ip = NilIP THEN NoLookup(fields, FALSE, name, TRUE, "invalid", "return")
    ELSE Looked(name, ip, "parsed", QueryDatabase(d, ip, fields), "return")

\* The body once the value of the source field is at hand.
LdResolve(d, fields, name, a) ==
    IF ~a.ok THEN NoLookup(fields, FALSE, name, FALSE, "none", "return")
    ELSE IF d.DNSLookup THEN
        IF LookupIP(a.host).err
        THEN NoLookup(fields, FALSE, name, TRUE, "error", "return")
        ELSE LdUseFirst(d, fields, name, LookupIP(a.host).ips)
    ELSE LdUseLiteral(d, fields, name, ParseIP(a.host))

\* GeoIpDecoder.Decode, whole: outcome is "return" or "panic".
GeoIpDecoderDecode(d, fields) ==
    LdResolve(d, fields, d.SourceHostField,
              AssertString(GetFieldValue(fields, d.SourceHostField)))

(***************************************************************************)
(* Inputs: configurations and records                                      *)
(***************************************************************************)
FieldNames == {"remote_addr", "host"}

\* The sequences over S of length at most n.
SeqsUpTo(S, n) == UNION {[1..k -> S] : k \in 0..n}

\* The values a candidate field may hold: an address literal, a host name, an
\* integer, or the bytes of an address literal.
CandidateValues(name) ==
    {StringField(name, s) : s \in DOMAIN Literals \cup HostNames}
        \cup {IntegerField(name, Small(42)), BytesField(name, <<"192.0.2.1">>)}

\* A record: a field the decoders never look at, then each candidate field
\* either missing or holding one value.
RecordsOver(remote_addrs, hosts) ==
    {<<IntegerField("status", Small(200))>> \o ra \o ho :
        ra \in {<<>>} \cup {<<v>> : v \in remote_addrs},
        ho \in {<<>>} \cup {<<v>> : v \in hosts}}

Records == RecordsOver(CandidateValues("remote_addr"), CandidateValues("host"))

SetupRecords ==
    RecordsOver({StringField("remote_addr", "192.0.2.1")},
                {StringField("host", "www.example.org"), IntegerField("host", Small(42))})

\* Three records: one whose second candidate matches, one whose first does,
\* and one holding a name that resolves to no address.
PoolRecords ==
    {<<IntegerField("status", Small(200)), StringField("remote_addr", "10.0.0.1"),
       StringField("host", "192.0.2.1")>>,
     <<IntegerField("status", Small(200)), StringField("remote_addr", "192.0.2.1")>>,
     <<IntegerField("status", Small(200)), StringField("host", "empty.example.org")>>}

GeoIp2Configs(files, prefixes, languages) ==
    [plugin : {"GeoIp2Decoder"},
     AnonDatabaseFile : files, CityDatabaseFile : files,
     ConnDatabaseFile : files, ISPDatabaseFile : files,
     SourceAddrFields : SeqsUpTo(FieldNames, MaxCandidates),
     TargetField : prefixes, Language : languages,
     JSONObject : BOOLEAN, DNSLookup : BOOLEAN]

GeoIpConfigs(files, names, prefixes) ==
    [plugin : {"GeoIpDecoder"},
     DatabaseFile : files, SourceHostField : names, TargetField : prefixes,
     JSONObject : BOOLEAN, DNSLookup : BOOLEAN]

(***************************************************************************)
(* State machine                                                           *)
(***************************************************************************)
IdleFrame ==
    [pc |-> "idle", fields |-> <<>>, idx |-> 0, found |-> FALSE, ip |-> NilIP,
     iters |-> <<>>, pack |-> 0, packs |-> <<>>]

\* The state after the host has built the plugin and read its configuration.
Setup(configs, workers, records) ==
    /\ config \in configs
    /\ pool = workers
    /\ \E f \in [workers -> records] :
           inbox = [w \in Workers |-> IF w \in workers THEN f[w] ELSE <<>>]
    /\ gi2 = NewGeoIp2Decoder
    /\ ld = NewGeoIpDecoder
    /\ initResult = "pending"
    /\ log = <<>>
    /\ frames = [w \in Workers |-> IdleFrame]
    /\ intSize \in IntSizes

\* Every database set or unset and opening; one record through one goroutine.
Init ==
    \/ Setup(GeoIp2Configs({"", GoodFile}, {"geoip"}, {"en", "de"}), {1}, Records)
    \/ Setup(GeoIpConfigs({GoodFile}, FieldNames, {"geoip"}), {1}, Records)

\* Every way of configuring the databases, with files that open and files
\* that do not, and with the required settings missing or present; a few
\* records through one goroutine.
InitAnyConfig ==
    \/ Setup(GeoIp2Configs({"", GoodFile, BadFile}, {"", "geoip"}, {"en"}), {1}, SetupRecords)
    \/ Setup(GeoIpConfigs({"", GoodFile, BadFile}, {""} \cup FieldNames, {"", "geoip"}),
             {1}, SetupRecords)

\* A started decoder with the longest candidate list and every database open,
\* and one record in each goroutine of the pool.
InitPool ==
    \/ Setup({c \in GeoIp2Configs({GoodFile}, {"geoip"}, {"en"}) :
                 Len(c.SourceAddrFields) = MaxCandidates},
             Workers, PoolRecords)
    \/ Setup(GeoIpConfigs({GoodFile}, {"host"}, {"geoip"}), Workers, PoolRecords)

\* A panic that no caller recovers ends the process.
Crashed == \E w \in Workers : frames[w].pc = "panic"

\* found kept in one place for all activations instead of one per call.
FoundShared(w) == \E v \in Workers : frames[v].found

\* The local variable found of the activation of goroutine w.
Found(w) == frames[w].found

\* The note a pass leaves in the activation: what it read, how it resolved,
\* what it queried and how many fields the message held before and after.
PassNote(r, before) ==
    [field |-> r.field, ok |-> r.ok, resolve |-> r.resolve, ip |-> r.ip,
     queries |-> r.queries, before |-> before, after |-> Len(r.fields),
     outcome |-> r.outcome]

\* The activation f after a pass with result r.
AfterPass(f, r) ==
    [f EXCEPT !.fields = r.fields,
              !.found = r.found,
              !.ip = IF r.outcome = "panic" \/ r.ip # NilIP THEN r.ip ELSE f.ip,
              !.iters = Append(f.iters, PassNote(r, Len(f.fields))),
              !.idx = f.idx + 1,
              !.packs = IF r.outcome = "return" THEN <<f.pack>> ELSE f.packs,
              !.pc = IF r.outcome = "panic" THEN "panic"
                     ELSE IF r.outcome = "return" THEN "returned" ELSE "test"]

GeoIp2Decoder_Init ==
    /\ initResult = "pending"
    /\ config.plugin = "GeoIp2Decoder"
    /\ gi2' = GeoIp2DecoderInit(gi2, config, log).d
    /\ log' = GeoIp2DecoderInit(gi2, config, log).log
    /\ initResult' = IF GeoIp2DecoderInit(gi2, config, log).err THEN "error" ELSE "nil"
    /\ UNCHANGED <<config, pool, inbox, ld, frames, intSize>>

GeoIpDecoder_Init ==
    /\ initResult = "pending"
    /\ config.plugin = "GeoIpDecoder"
    /\ ld' = GeoIpDecoderInit(ld, config).d
    /\ initResult' = IF GeoIpDecoderInit(ld, config).err THEN "error" ELSE "nil"
    /\ UNCHANGED <<config, pool, inbox, gi2, log, frames, intSize>>

\* The host calls Decode(pack) on a started decoder.
Decode_Call(w) ==
    /\ initResult = "nil"
    /\ ~Crashed
    /\ w \in pool
    /\ frames[w].pc = "idle"
    /\ frames' = [frames EXCEPT ![w] =
                    [IdleFrame EXCEPT !.pc = IF config.plugin = "GeoIp2Decoder"
                                             THEN "loop" ELSE "body",
                                      !.fields = inbox[w], !.idx = 1, !.pack = w]]
    /\ UNCHANGED <<config, pool, inbox, gi2, ld, initResult, log, intSize>>

\* One pass of the loop of GeoIp2Decoder.Decode, to the break test.
GeoIp2Decoder_Decode_Pass(w) ==
    /\ ~Crashed
    /\ frames[w].pc = "loop"
    /\ frames[w].idx <= Len(gi2.SourceAddrFields)
    /\ frames' = [frames EXCEPT ![w] =
                    AfterPass(frames[w],
                              DecodePass(gi2, frames[w].fields, Found(w),
                                         gi2.SourceAddrFields[frames[w].idx]))]
    /\ UNCHANGED <<config, pool, inbox, gi2, ld, initResult, log, intSize>>

\* if found { break }
GeoIp2Decoder_Decode_Test(w) ==
    /\ ~Crashed
    /\ frames[w].pc = "test"
    /\ frames' = [frames EXCEPT ![w].pc = IF Found(w) THEN "break" ELSE "loop"]
    /\ UNCHANGED <<config, pool, inbox, gi2, ld, initResult, log, intSize>>

\* packs = []*PipelinePack{pack}; return
GeoIp2Decoder_Decode_Return(w) ==
    /\ ~Crashed
    /\ \/ frames[w].pc = "break"
       \/ frames[w].pc = "loop" /\ frames[w].idx > Len(gi2.SourceAddrFields)
    /\ frames' = [frames EXCEPT ![w].pc = "returned", ![w].packs = <<frames[w].pack>>]
    /\ UNCHANGED <<config, pool, inbox, gi2, ld, initResult, log, intSize>>

\* GeoIpDecoder.Decode, from entry to return.
GeoIpDecoder_Decode(w) ==
    /\ ~Crashed
    /\ frames[w].pc = "body"
    /\ frames' = [frames EXCEPT ![w] =
                    AfterPass(frames[w], GeoIpDecoderDecode(ld, frames[w].fields))]
    /\ UNCHANGED <<config, pool, inbox, gi2, ld, initResult, log, intSize>>

Next ==
    \/ GeoIp2Decoder_Init
    \/ GeoIpDecoder_Init
    \/ \E w \in Workers : Decode_Call(w)
    \/ \E w \in Workers : GeoIp2Decoder_Decode_Pass(w)
    \/ \E w \in Workers : GeoIp2Decoder_Decode_Test(w)
    \/ \E w \in Workers : GeoIp2Decoder_Decode_Return(w)
    \/ \E w \in Workers : GeoIpDecoder_Decode(w)

Spec == Init /\ [][Next]_vars

SpecInit == InitAnyConfig /\ [][Next]_vars

SpecPool == InitPool /\ [][Next]_vars

(***************************************************************************)
(* Decode run alone                                                        *)
(***************************************************************************)
\* What Decode leaves when it stops at a pass with result r.
Stopped(r) ==
    [fields |-> r.fields, outcome |-> IF r.outcome = "panic" THEN "panic" ELSE "return"]

RECURSIVE DecodeFrom(_, _, _)
\* GeoIp2Decoder.Decode from candidate i on, with nothing found so far and no
\* other activation: the fields of the message at the end, and whether the
\* call returned or panicked.
DecodeFrom(d, fields, i) ==
    IF i > Len(d.SourceAddrFields) THEN [fields |-> fields, outcome |-> "return"]
    ELSE IF DecodePass(d, fields, FALSE, d.SourceAddrFields[i]).outcome = "panic"
            \/ DecodePass(d, fields, FALSE, d.SourceAddrFields[i]).found
    THEN Stopped(DecodePass(d, fields, FALSE, d.SourceAddrFields[i]))
    ELSE DecodeFrom(d, DecodePass(d, fields, FALSE, d.SourceAddrFields[i]).fields, i + 1)

(***************************************************************************)
(* Properties                                                              *)
(***************************************************************************)
IsGeoIp2 == config.plugin = "GeoIp2Decoder"

\* The candidate address fields of the decoder in use, in order.
Candidates == IF IsGeoIp2 THEN gi2.SourceAddrFields ELSE <<ld.SourceHostField>>

DNSMode == IF IsGeoIp2 THEN gi2.DNSLookup ELSE ld.DNSLookup

\* The fields the activation of w has appended to its record so far.
Added(w) == SubSeq(frames[w].fields, Len(inbox[w]) + 1, Len(frames[w].fields))

Range(q) == {q[i] : i \in 1..Len(q)}

\* Every query noted by the activation of w.
QueriesOf(w) == UNION {Range(e.queries) : e \in Range(frames[w].iters)}

\* C1: Decode always terminates normally and returns a list of exactly one
\* element, the input record; it never aborts.
C1_DecodeReturnsTheRecord ==
    \A w \in Workers :
        /\ frames[w].pc # "panic"
        /\ frames[w].pc = "returned" => frames[w].packs = <<frames[w].pack>>

\* C2: the candidates are consulted in configured order; Decode stops exactly
\* at the first candidate for which a field was written: no pass before the
\* last wrote a field, and a call that stops before the end of the list
\* wrote one in its last pass.
C2_StopsAtFirstOutput ==
    \A w \in Workers :
        (IsGeoIp2 /\ frames[w].pc = "returned") =>
            LET it == frames[w].iters
            IN  /\ \A k \in 1..Len(it) : it[k].field = gi2.SourceAddrFields[k]
                /\ \A k \in 1..(Len(it) - 1) : it[k].after = it[k].before
                /\ Len(it) < Len(gi2.SourceAddrFields) => it[Len(it)].after > it[Len(it)].before

\* C3: a query that fails is not found, for each of the four databases: its
\* extractor is not invoked and the failure does not set found.
C3_FailedQueryIsNotFound ==
    \A w \in Workers : \A q \in QueriesOf(w) : q.err => ~q.hit

\* C4: in DNS mode a resolver error or an empty address list is the soft
\* outcome (no panic, no query, no field added), and otherwise every query
\* of the pass uses the first address returned.
C4_ResolverFailureIsSoft ==
    \A w \in Workers : \A e \in Range(frames[w].iters) :
        (DNSMode /\ e.ok) =>
            /\ e.resolve \in {"error", "empty"} =>
                   e.outcome # "panic" /\ e.queries = <<>> /\ e.after = e.before
            /\ e.resolve = "resolved" =>
                   \A q \in Range(e.queries) :
                       q.ip = LookupIP(GetFieldValue(inbox[w], e.field).value_string).ips[1]

\* name is missing from the record or holds a value that is not a string.
Unusable(fields, name) == GetFieldValue(fields, name).value_type # "STRING"

AllUnusable(w) == \A k \in 1..Len(Candidates) : Unusable(inbox[w], Candidates[k])

\* C5: when every configured candidate field is absent or not a string, the
\* fields of the record are those of the input at every point of Decode,
\* and Decode returns.
C5_UnusableCandidatesLeaveRecord ==
    \A w \in Workers :
        (frames[w].pc # "idle" /\ AllUnusable(w)) =>
            frames[w].fields = inbox[w] /\ frames[w].pc # "panic"

\* C5 witness: a returned call of the four-database decoder over two
\* candidates, one missing and one holding the bytes of an address literal,
\* with the city database open.
C5_Witness ==
    \E w \in Workers :
        /\ IsGeoIp2 /\ frames[w].pc = "returned" /\ AllUnusable(w)
        /\ gi2.SourceAddrFields = <<"remote_addr", "host">>
        /\ gi2.city_db # NilReader
        /\ GetFieldValue(inbox[w], "remote_addr").value_type = "NONE"
        /\ GetFieldValue(inbox[w], "host").value_type = "BYTES"
        /\ Len(frames[w].iters) = 2

\* Required configuration is missing.
MissingRequired ==
    IF IsGeoIp2 THEN Len(config.SourceAddrFields) = 0 \/ config.TargetField = ""
    ELSE config.SourceHostField = "" \/ config.TargetField = ""

\* C6: Init returns an error whenever the candidate field list is empty or
\* the target prefix is the empty string.
C6_InitFailsOnMissingConfig ==
    (initResult # "pending" /\ MissingRequired) => initResult = "error"

\* The four database kinds of GeoIp2Decoder: handle, configured file, message.
Kinds ==
    {[handle |-> "anon_db", file |-> config.AnonDatabaseFile, msg |-> MsgOpenAnon],
     [handle |-> "city_db", file |-> config.CityDatabaseFile, msg |-> MsgOpenCity],
     [handle |-> "conn_db", file |-> config.ConnDatabaseFile, msg |-> MsgOpenConn],
     [handle |-> "isp_db", file |-> config.ISPDatabaseFile, msg |-> MsgOpenISP]}

FailsToOpen(k) == k.file # "" /\ Open(k.file).err

\* C7: a database file that fails to open disables that kind only and is
\* logged for that kind only, and Init returns no error when another
\* configured database opened.
C7_OpenFailureDisablesOneKind ==
    (IsGeoIp2 /\ initResult # "pending") =>
        /\ \A k \in Kinds : FailsToOpen(k) => gi2[k.handle] = NilReader /\ k.msg \in Range(log)
        /\ \A k \in Kinds : k.msg \in Range(log) => FailsToOpen(k)
        /\ \A k \in Kinds : (k.file # "" /\ ~Open(k.file).err) => gi2[k.handle] # NilReader
        /\ (\E k \in Kinds : k.file # "" /\ ~Open(k.file).err) => initResult = "nil"

\* The attribute names of the four extractors.
AttributeNames ==
    {"location", "country_code", "country", "city",
     "asnum", "asname", "isp", "organization",
     "anonymous_ip", "anonymous_vpn", "hosting_provider", "public_proxy", "tor_exit_node",
     "connection_type"}

\* C8: in flat shape every field Decode adds is named <prefix>_<attribute>.
C8_FlatFieldsCarryPrefix ==
    \A w \in Workers :
        (IsGeoIp2 /\ ~gi2.JSONObject) =>
            \A f \in Range(Added(w)) :
                \E a \in AttributeNames : f.name = Prefixed(gi2.TargetField, a)

\* C9: in JSON-object shape one Decode call adds at most one field, named
\* exactly <prefix>.
C9_JSONShapeAddsOneField ==
    \A w \in Workers :
        (IsGeoIp2 /\ gi2.JSONObject) =>
            /\ Len(Added(w)) <= 1
            /\ \A f \in Range(Added(w)) : f.name = gi2.TargetField /\ f.value_type = "BYTES"

\* What the call of w gives when it runs with no other call in progress.
Alone(w) ==
    IF IsGeoIp2 THEN DecodeFrom(gi2, inbox[w], 1)
    ELSE Stopped(GeoIpDecoderDecode(ld, inbox[w]))

\* Each record ends as it would had its call run alone.
EndsAsAlone ==
    \A w \in Workers :
        /\ frames[w].pc = "returned" =>
               Alone(w).outcome = "return" /\ frames[w].fields = Alone(w).fields
        /\ frames[w].pc = "panic" => Alone(w).outcome = "panic"

\* C10: Decode calls running concurrently on one decoder never write the
\* decoder (after Init returned, the decoder structs keep their values), and
\* every record ends with the fields it gets when its call runs alone.
C10_ConcurrentDecodeIsSafe ==
    /\ []EndsAsAlone
    /\ [][initResult # "pending" => (gi2' = gi2 /\ ld' = ld)]_vars

\* C10 witness: two activations overlap: one has returned with a match while
\* another, on a different record, has finished its second pass with a match.
C10_Witness ==
    \E v, w \in Workers :
        /\ v # w /\ inbox[v] # inbox[w]
        /\ frames[v].pc = "returned" /\ frames[v].found /\ Len(frames[v].iters) = 1
        /\ frames[w].pc = "test" /\ frames[w].found /\ Len(frames[w].iters) = 2

\* The coordinate pair of a lookup record is the all-zero sentinel.
Sentinel(rec) == rec.Location.Latitude = 0 /\ rec.Location.Longitude = 0

\* C11: a city query is found exactly when the lookup succeeded and the
\* coordinate pair is not the all-zero sentinel; a record with one coordinate
\* zero and the other not is found and its attributes are emitted.
C11_CityFoundUnlessSentinel ==
    \A w \in Workers : \A q \in QueriesOf(w) :
        q.kind = "city" =>
            (q.hit <=> (~City(q.ip).err /\ ~Sentinel(City(q.ip).rec)))

(***************************************************************************)
(* The JSON text of a buffer                                               *)
(***************************************************************************)
Token(kind, text) == [kind |-> kind, text |-> text]

Key(name) == Token("key", name)

\* The JSON tokens of each literal the extractors write to a buffer: the
\* punctuation one token each, a member name with its colon one "key" token.
Literal ==
    ("{" :> <<Token("{", "")>>) @@ ("}" :> <<Token("}", "")>>) @@
    ("," :> <<Token(",", "")>>) @@
    ("[" :> <<Token("[", "")>>) @@ ("]" :> <<Token("]", "")>>) @@
    ("\"" :> <<Token("quote", "")>>) @@
    ("\"location\":[" :> <<Key("location"), Token("[", "")>>) @@
    (",\"country_code\":\"" :> <<Token(",", ""), Key("country_code"), Token("quote", "")>>) @@
    (",\"country\":\"" :> <<Token(",", ""), Key("country"), Token("quote", "")>>) @@
    (",\"city\":\"" :> <<Token(",", ""), Key("city"), Token("quote", "")>>) @@
    ("\"asnum\":" :> <<Key("asnum")>>) @@
    (",\"asname\":\"" :> <<Token(",", ""), Key("asname"), Token("quote", "")>>) @@
    (",\"isp\":\"" :> <<Token(",", ""), Key("isp"), Token("quote", "")>>) @@
    (",\"organization\":\"" :> <<Token(",", ""), Key("organization"), Token("quote", "")>>) @@
    (",\"anonymous_ip\": true," :>
        <<Token(",", ""), Key("anonymous_ip"), Token("true", ""), Token(",", "")>>) @@
    (",\"anonymous_vpn\": true" :> <<Token(",", ""), Key("anonymous_vpn"), Token("true", "")>>) @@
    (",\"hosting_provider\": true" :>
        <<Token(",", ""), Key("hosting_provider"), Token("true", "")>>) @@
    (",\"public_proxy\": true" :> <<Token(",", ""), Key("public_proxy"), Token("true", "")>>) @@
    (",\"tor_exit_node\": true" :> <<Token(",", ""), Key("tor_exit_node"), Token("true", "")>>) @@
    ("\"connection_type\":\"" :> <<Key("connection_type"), Token("quote", "")>>)

\* The tokens of one string written to a buffer: those of the literal, or
\* one "text" token for a value (a name, a code, a formatted number).
Lex(chunk) ==
    IF chunk \in DOMAIN Literal THEN Literal[chunk] ELSE <<Token("text", chunk)>>

RECURSIVE Tokens(_)
\* The tokens of the bytes of a buffer.
Tokens(buf) == IF buf = <<>> THEN <<>> ELSE Lex(Head(buf)) \o Tokens(Tail(buf))

\* The kind of token i of t, "" past the end.
KindAt(t, i) == IF i \in 1..Len(t) THEN t[i].kind ELSE ""

\* The number of tokens of the JSON value that starts at token i: a quoted
\* string, a pair of numbers in brackets, a number or true; 0 when there is
\* no value there.
ValueLen(t, i) ==
    IF KindAt(t, i) = "quote" /\ KindAt(t, i + 1) = "text" /\ KindAt(t, i + 2) = "quote"
    THEN 3
    ELSE IF KindAt(t, i) = "[" /\ KindAt(t, i + 1) = "text" /\ KindAt(t, i + 2) = ","
            /\ KindAt(t, i + 3) = "text" /\ KindAt(t, i + 4) = "]"
    THEN 5
    ELSE IF KindAt(t, i) \in {"text", "true"} THEN 1
    ELSE 0

\* The number of tokens of the member that starts at token i, 0 when none.
MemberLen(t, i) ==
    IF KindAt(t, i) = "key" /\ ValueLen(t, i + 1) > 0 THEN 1 + ValueLen(t, i + 1) ELSE 0

RECURSIVE MoreMembers(_, _)
\* From token i on, after a member: the closing brace as the last token, or
\* one comma, a member, and so on.
MoreMembers(t, i) ==
    IF i >= Len(t) THEN i = Len(t) /\ KindAt(t, i) = "}"
    ELSE KindAt(t, i) = "," /\ MemberLen(t, i + 1) > 0
         /\ MoreMembers(t, i + 1 + MemberLen(t, i + 1))

\* t is one JSON object: braces around members separated by single commas.
WellFormedObject(t) ==
    /\ KindAt(t, 1) = "{"
    /\ IF KindAt(t, 2) = "}" THEN Len(t) = 2
       ELSE MemberLen(t, 2) > 0 /\ MoreMembers(t, 2 + MemberLen(t, 2))

\* The member names in t.
KeysOf(t) == {t[i].text : i \in {j \in 1..Len(t) : t[j].kind = "key"}}

JSONShape == IF IsGeoIp2 THEN gi2.JSONObject ELSE ld.JSONObject

\* The language in which the decoder in use reads names.
NamesIn == IF IsGeoIp2 THEN gi2.Language ELSE "en"

\* The present attributes of a name in a set: the name when c holds.
Present(c, name) == IF c THEN {name} ELSE {}

\* The attributes present in the lookup record of database kind for ip.
PresentAttributes(kind, ip) ==
    IF kind = "anon" THEN
        Present(AnonymousIP(ip).rec.IsAnonymous, "anonymous_ip")
            \cup Present(AnonymousIP(ip).rec.IsAnonymousVPN, "anonymous_vpn")
            \cup Present(AnonymousIP(ip).rec.IsHostingProvider, "hosting_provider")
            \cup Present(AnonymousIP(ip).rec.IsPublicProxy, "public_proxy")
            \cup Present(AnonymousIP(ip).rec.IsTorExitNode, "tor_exit_node")
    ELSE IF kind = "city" THEN
        {"location"}
            \cup Present(City(ip).rec.Country.IsoCode # "", "country_code")
            \cup Present(MapGet(City(ip).rec.Country.Names, NamesIn) # "", "country")
            \cup Present(MapGet(City(ip).rec.City.Names, NamesIn) # "", "city")
    ELSE IF kind = "conn" THEN
        Present(ConnectionType(ip).rec.ConnectionType # "", "connection_type")
    ELSE
        Present(ISP(ip).rec.AutonomousSystemNumber # Uint(0, 0), "asnum")
            \cup Present(ISP(ip).rec.AutonomousSystemOrganization # "", "asname")
            \cup Present(ISP(ip).rec.ISP # "", "isp")
            \cup Present(ISP(ip).rec.Organization # "", "organization")

IsHit(q) == q.hit

\* The queries of pass e whose extractor ran, in order.
Hits(e) == SelectSeq(e.queries, IsHit)

\* C12: in JSON-object shape the value each extractor writes is a well-formed
\* JSON object with one member for each present attribute of its lookup
\* record and none for an absent one.
C12_JSONValueIsWellFormed ==
    \A w \in Workers : \A e \in Range(frames[w].iters) :
        JSONShape =>
            \A j \in 1..Len(Hits(e)) :
                /\ WellFormedObject(Tokens(frames[w].fields[e.before + j].value_bytes))
                /\ KeysOf(Tokens(frames[w].fields[e.before + j].value_bytes))
                       = PresentAttributes(Hits(e)[j].kind, Hits(e)[j].ip)

(***************************************************************************)
(* The two output shapes side by side                                      *)
(***************************************************************************)
\* The fields the extractor of database kind adds to an empty message for
\* the lookup record of ip, in JSON-object shape (json) or in flat shape,
\* with the other settings of the decoder in use.
Extract(kind, ip, json) ==
    IF ~IsGeoIp2
    THEN CreateMessageFields([ld EXCEPT !.JSONObject = json], City(ip).rec, <<>>)
    ELSE IF kind = "anon"
    THEN CreateMessageFieldsAnonymousIP([gi2 EXCEPT !.JSONObject = json],
                                        AnonymousIP(ip).rec, <<>>)
    ELSE IF kind = "city"
    THEN CreateMessageFieldsCity([gi2 EXCEPT !.JSONObject = json], City(ip).rec, <<>>)
    ELSE IF kind = "conn"
    THEN CreateMessageFieldsConnectionType([gi2 EXCEPT !.JSONObject = json],
                                           ConnectionType(ip).rec, <<>>)
    ELSE CreateMessageFieldsISP([gi2 EXCEPT !.JSONObject = json], ISP(ip).rec, <<>>)

\* The names the flat branches give their fields, without prefix.
FlatNames == AttributeNames \cup {"countrycode"}

\* A flat field name with the <prefix>_ part removed.
Strip(prefix, name) ==
    IF \E a \in FlatNames : name = Prefixed(prefix, a)
    THEN CHOOSE a \in FlatNames : name = Prefixed(prefix, a)
    ELSE name

\* The decimal text of a signed integer.
FormatInt(i) ==
    IF i.neg THEN "-" \o FormatUint(Uint(i.hi, i.lo)) ELSE FormatUint(Uint(i.hi, i.lo))

\* The value of the member whose value starts at token i. An array is a
\* point in the order longitude, latitude.
MemberValue(t, i) ==
    IF KindAt(t, i) = "quote" THEN [type |-> "string", a |-> t[i + 1].text, b |-> ""]
    ELSE IF KindAt(t, i) = "[" /\ ValueLen(t, i) = 5
    THEN [type |-> "point", a |-> t[i + 3].text, b |-> t[i + 1].text]
    ELSE IF KindAt(t, i) = "true" THEN [type |-> "bool", a |-> "true", b |-> ""]
    ELSE IF KindAt(t, i) = "text" THEN [type |-> "number", a |-> t[i].text, b |-> ""]
    ELSE [type |-> "none", a |-> "", b |-> ""]

\* The members of the JSON text t: name and value.
Members(t) ==
    {[name |-> t[i].text, value |-> MemberValue(t, i + 1)] :
        i \in {j \in 1..Len(t) : t[j].kind = "key"}}

\* The flat field f holds the value v of a member: the same string, number
\* or truth value, or the same point, written as the string
\* "latitude, longitude" or as the bytes of an array longitude, latitude.
SameValue(f, v) ==
    IF v.type = "string" THEN f.value_type = "STRING" /\ f.value_string = v.a
    ELSE IF v.type = "number" THEN f.value_type = "INTEGER" /\ FormatInt(f.value_integer) = v.a
    ELSE IF v.type = "bool" THEN f.value_type = "BOOL" /\ f.value_bool
    ELSE IF v.type = "point" THEN
        \/ f.value_type = "STRING" /\ f.value_string = v.a \o ", " \o v.b
        \/ f.value_type = "BYTES" /\ MemberValue(Tokens(f.value_bytes), 1) = v
    ELSE FALSE

\* The flat fields and the members of the JSON object carry the same
\* attribute names with the same values.
SameAttributes(prefix, flat, members) ==
    /\ {Strip(prefix, f.name) : f \in Range(flat)} = {m.name : m \in members}
    /\ \A f \in Range(flat) : \A m \in members :
           Strip(prefix, f.name) = m.name => SameValue(f, m.value)

\* The prefix of the decoder in use.
TargetField == IF IsGeoIp2 THEN gi2.TargetField ELSE ld.TargetField

\* C13: for the lookup record of every query whose extractor ran, the flat
\* fields (prefix removed) and the members of the JSON object are the same
\* attribute names with the same logical values, the location with the same
\* latitude and longitude.
C13_ShapesCarrySameAttributes ==
    \A w \in Workers : \A q \in QueriesOf(w) :
        q.hit =>
            SameAttributes(TargetField, Extract(q.kind, q.ip, FALSE),
                           Members(Tokens(Extract(q.kind, q.ip, TRUE)[1].value_bytes)))

\* The fields named name that pass e of the activation of w appended.
AddedIn(w, e, name) ==
    {f \in {frames[w].fields[k] : k \in (e.before + 1)..e.after} : f.name = name}

\* C14: in flat shape the autonomous-system number is written with its own
\* value for every number from 1 to 4294967295, never negative or wrapped,
\* and a number of 0 is not written.
C14_ASNumberKeepsItsValue ==
    \A w \in Workers : \A e \in Range(frames[w].iters) : \A q \in Range(e.queries) :
        (IsGeoIp2 /\ ~gi2.JSONObject /\ q.kind = "isp" /\ q.hit) =>
            IF ISP(q.ip).rec.AutonomousSystemNumber = Uint(0, 0)
            THEN AddedIn(w, e, "asnum") = {}
            ELSE AddedIn(w, e, "asnum") =
                     {IntegerField("asnum",
                                   Int64(FALSE, ISP(q.ip).rec.AutonomousSystemNumber.hi,
                                       ISP(q.ip).rec.AutonomousSystemNumber.lo))}

====
